---------------------------- MODULE Spec2Model ----------------------------
(***************************************************************************)
(* A model of mambler (src/mambler.py): the Markdown -> AMB book compiler. *)
(*                                                                         *)
(* Text is modelled by what the code reads of it.  A filename is a         *)
(* sequence of character codes.  An AMA line is a record                   *)
(*   [id, size, link, words, high]                                         *)
(* where size is the length of _encode_line(line), i.e. the encoded line   *)
(* plus its "\n" (an empty line has size 1); id is the line's position in  *)
(* the renderer's output (0 for a line the splitter adds); link is the     *)
(* target of an added continuation line (<<>> otherwise); words is the set *)
(* of the maximal alphanumeric runs of the line once its control codes are *)
(* stripped, in lower case; high tells whether the encoded line holds a    *)
(* byte >= 0x80.  An element [text, copies] of words stands for that many  *)
(* distinct words of the line: text, a sequence of character codes, and    *)
(* copies-1 other arrangements of its letters, none of which occurs in a   *)
(* line without the others (copies is 1 for a single word).  Arrangements  *)
(* of the same letters have one length and one XOR of their bytes, hence   *)
(* one encoded size and one hash bucket.  Every line is taken to be        *)
(* encodable in the selected single-byte codepage and free of "\n" and of  *)
(* tabs, and every word to be ASCII.                                       *)
(***************************************************************************)
EXTENDS Integers, Sequences, FiniteSets, TLC

\* ------------------------------------------------------------------ bounds

\* Longest rendered article (in lines) the splitter specification draws.
MaxLines == 3

\* Markdown files 0..MaxPath (0 is the root) link to each other freely.
MaxPath == 2

\* The root may also link to this many further files that share one stem.
BulkCount == 101

\* Entries of the codepage's high-byte table the byte-level book draws (the
\* program's tables have 128).
MapLen == 3

\* Articles besides INDEX.AMA in the byte-level book.
MaxExtraArticles == 2

\* ------------------------------------------------------- program constants

AMA_MAX_BYTES == 65535

\* "Continue", as character codes.
LINK_CONTINUE_LABEL == <<67, 111, 110, 116, 105, 110, 117, 101>>

\* ".AMA"
AMA_EXT == <<46, 65, 77, 65>>

\* "XXXXXXXX.XXX"
placeholder_target == <<88, 88, 88, 88, 88, 88, 88, 88, 46, 88, 88, 88>>

\* -------------------------------------------------------------- variables

VARIABLES
    \* split_article
    spc,            \* position in split_article
    filename,       \* its filename argument
    lines,          \* its lines argument
    encoded_lines,  \* the (line, bytes) work list
    index,          \* 0-based read position in encoded_lines
    current,        \* lines of the segment being filled
    current_size,   \* their encoded size
    segments,       \* flushed segments
    result,         \* the returned dict, as a sequence of [name, lines]
    serr,           \* the exception raised, or "none"
    \* collect_articles
    cpc,            \* position in collect_articles
    queue,          \* the deque of paths
    visited,        \* the dict path -> Article, as a sequence of [path, ama_name]
    assigned_names, \* the set of names given so far
    stems,          \* the files read so far: path -> its filename stem
    graph,          \* the files read so far: path -> its local Markdown links
    assignments,    \* ghost: the paths in the order in which each was given a name
    \* assemble_files and pack_amb, on bytes
    unicode_map,    \* the codepage's map of the bytes 0x80.. to code points
    title,          \* the book title (<<>>: none)
    ama_contents,   \* the dict name -> lines, each line a sequence of code points
    files,          \* the list of (name, payload bytes)
    archive,        \* the bytes pack_amb returns
    bpc,            \* position in build_amb
    berr,           \* the exception raised, or "none"
    \* build_amb, on rendered lines and payload lengths
    kpc,            \* position in build_amb
    articles,       \* collect_articles' result with each file's rendered lines
    article_index,  \* articles rendered so far
    rendered,       \* render_articles' dict name -> lines
    word_index,     \* render_articles' dict name -> words
    inverted_index, \* render_articles' dict word -> names, as <<word, name>> pairs
    base_files,     \* assemble_files' list, as (name, payload length)
    dict_err,       \* the exception build_dict_index raised last, or "none"
    dict_index,     \* DICT.IDX as packed: per bucket the (word, file ids) entries
    directory,      \* the directory pack_amb writes: (name, offset, length)
    kerr            \* the exception that ended build_amb, or "none"

splitVars == <<spc, filename, lines, encoded_lines, index, current,
               current_size, segments, result, serr>>

collectVars == <<cpc, queue, visited, assigned_names, stems, graph, assignments>>

byteVars == <<unicode_map, title, ama_contents, files, archive, bpc, berr>>

bookVars == <<kpc, articles, article_index, rendered, word_index, inverted_index,
              base_files, dict_err, dict_index, directory, kerr>>

vars == <<splitVars, collectVars, byteVars, bookVars>>

\* What each component leaves alone.
exceptSplit == <<collectVars, byteVars, bookVars>>

exceptCollect == <<splitVars, byteVars, bookVars>>

exceptBytes == <<splitVars, collectVars, bookVars>>

exceptBook == <<collectVars, byteVars>>

\* ---------------------------------------------------------------- helpers

RECURSIVE SumSizes(_)
SumSizes(ls) ==
    IF ls = <<>> THEN 0 ELSE ls[1].size + SumSizes(Tail(ls))

\* A dict preserves insertion order; storing under an existing key replaces
\* the value in place.
HasKey(d, k) == \E i \in 1..Len(d) : d[i].name = k

DictPut(d, k, v) ==
    IF HasKey(d, k)
    THEN [i \in 1..Len(d) |-> IF d[i].name = k THEN [name |-> k, lines |-> v] ELSE d[i]]
    ELSE Append(d, [name |-> k, lines |-> v])

\* list.insert(i, x), i 0-based and within the list.
ListInsert(s, i, x) == SubSeq(s, 1, i) \o <<x>> \o SubSeq(s, i + 1, Len(s))

\* Decimal digits of n, as character codes.
RECURSIVE Digits(_)
Digits(n) == IF n < 10 THEN <<48 + n>> ELSE Append(Digits(n \div 10), 48 + (n % 10))

\* f"{n:02d}"
Fmt02(n) == IF n < 10 THEN <<48, 48 + n>> ELSE Digits(n)

Max(a, b) == IF a >= b THEN a ELSE b

\* str.lower() and str.upper() of an ASCII character.
Lower(c) == IF c \in 65..90 THEN c + 32 ELSE c

Upper(c) == IF c \in 97..122 THEN c - 32 ELSE c

\* s[:n]
Prefix(s, n) == SubSeq(s, 1, IF n < Len(s) THEN n ELSE Len(s))

\* ------------------------------------------------------- encoding of lines

\* _encode_line: the line and its "\n".
EncodeLineLen(line) == line.size

\* Number of lines left once "\n".join(lines).rstrip("\n") has dropped the
\* trailing empty lines.
RECURSIVE StrippedCount(_)
StrippedCount(ls) ==
    IF ls = <<>> THEN 0
    ELSE IF ls[Len(ls)].size > 1 THEN Len(ls)
    ELSE StrippedCount(SubSeq(ls, 1, Len(ls) - 1))

\* _encoded_size: len(encode("\n".join(lines).rstrip("\n") + "\n")).
EncodedSize(ls) ==
    LET n == StrippedCount(ls)
    IN  IF n = 0 THEN 1 ELSE SumSizes(SubSeq(ls, 1, n))

\* The lines the splitter adds to a non-terminal segment.
BlankLine == [id |-> 0, size |-> 1, link |-> <<>>, words |-> {}, high |-> FALSE]

\* len(_encode_line(f"%l{target}:{LINK_CONTINUE_LABEL}%t"))
LinkLineSize(target) == 2 + Len(target) + 1 + Len(LINK_CONTINUE_LABEL) + 2 + 1

\* The line "%l<target>:Continue%t"; _strip_control_codes leaves "Continue"
\* of it.
LinkLine(target) ==
    [id |-> 0, size |-> LinkLineSize(target), link |-> target,
     words |-> {[text |-> [i \in 1..Len(LINK_CONTINUE_LABEL) |->
                              Lower(LINK_CONTINUE_LABEL[i])],
                 copies |-> 1]},
     high |-> FALSE]

\* ----------------------------------------------------------- split_article

\* Mutant: the overhead forgets the blank separating line.
continue_overhead_noblank == LinkLineSize(placeholder_target)

continue_overhead == EncodeLineLen(BlankLine) + LinkLineSize(placeholder_target)

\* Path(filename).stem for a name ending in one suffix.
Stem(name) == SubSeq(name, 1, Len(name) - Len(AMA_EXT))

\* Mutant: popped lines are dropped instead of re-inserted.
RECURSIVE PopBackDrop(_, _, _, _)
PopBackDrop(cur, size, enc, idx) ==
    IF cur # <<>> /\ size + continue_overhead > AMA_MAX_BYTES
    THEN PopBackDrop(SubSeq(cur, 1, Len(cur) - 1),
                     size - EncodeLineLen(cur[Len(cur)]), enc, idx)
    ELSE [current |-> cur, current_size |-> size, encoded_lines |-> enc]

\* Mutant: the pop-back loop goes on until one line is left.
RECURSIVE PopBackToOne(_, _, _, _)
PopBackToOne(cur, size, enc, idx) ==
    IF Len(cur) > 1
    THEN PopBackToOne(SubSeq(cur, 1, Len(cur) - 1),
                      size - EncodeLineLen(cur[Len(cur)]),
                      ListInsert(enc, idx, cur[Len(cur)]), idx)
    ELSE [current |-> cur, current_size |-> size, encoded_lines |-> enc]

\* The pop-back loop: trailing lines of the current segment go back in front
\* of the unread lines until the segment leaves room for the continuation.
RECURSIVE PopBack(_, _, _, _)
PopBack(cur, size, enc, idx) ==
    IF cur # <<>> /\ size + continue_overhead > AMA_MAX_BYTES
    THEN LET moved_line == cur[Len(cur)]
         IN  PopBack(SubSeq(cur, 1, Len(cur) - 1),
                     size - EncodeLineLen(moved_line),
                     ListInsert(enc, idx, moved_line), idx)
    ELSE [current |-> cur, current_size |-> size, encoded_lines |-> enc]

\* The sub-counter loop of the segment naming.
RECURSIVE UniqueSegName(_, _, _, _, _)
UniqueSegName(new_name, stem, idx, existing, counter) ==
    IF new_name \in existing
    THEN LET suffix == Fmt02(idx) \o Digits(counter)
             trimmed == Prefix(stem, Max(1, 8 - Len(suffix)))
         IN  UniqueSegName(trimmed \o suffix \o AMA_EXT, stem, idx, existing, counter + 1)
    ELSE new_name

\* generated_names for segments idx..n-1 (idx 0-based).
RECURSIVE GenerateNames(_, _, _, _, _)
GenerateNames(fname, n, idx, generated, existing) ==
    IF idx >= n THEN generated
    ELSE LET stem == Stem(fname)
             suffix == Fmt02(idx)
             trimmed == Prefix(stem, Max(1, 8 - Len(suffix)))
             new_name == IF idx = 0 THEN fname
                         ELSE UniqueSegName(trimmed \o suffix \o AMA_EXT, stem, idx, existing, 1)
         IN  GenerateNames(fname, n, idx + 1, Append(generated, new_name),
                           existing \cup {new_name})

\* Mutant: a segment links to itself.
ContinuationTargetSelf(generated, i) == generated[i]

\* The continuation target of the i-th segment (1-based): the next name.
ContinuationTarget(generated, i) == generated[i + 1]

\* Mutant: empty segments are kept.
NonEmptySegmentsKeepAll(segs) == segs

\* segments = [segment for segment in segments if segment]
NonEmptySegments(segs) == SelectSeq(segs, LAMBDA s : s # <<>>)

\* The lines stored for the i-th segment (1-based).
SegmentLines(segs, generated, i) ==
    IF i < Len(generated)
    THEN segs[i] \o <<BlankLine, LinkLine(ContinuationTarget(generated, i))>>
    ELSE segs[i]

\* The result loop: the dict, or the "Unable to split" error.
RECURSIVE BuildResult(_, _, _, _)
BuildResult(segs, generated, i, acc) ==
    IF i > Len(generated) THEN [err |-> "none", result |-> acc]
    ELSE LET segment_lines == SegmentLines(segs, generated, i)
         IN  IF i < Len(generated) /\ EncodedSize(segment_lines) > AMA_MAX_BYTES
             THEN [err |-> "unable_to_split", result |-> <<>>]
             ELSE BuildResult(segs, generated, i + 1,
                              DictPut(acc, generated[i], segment_lines))

\* Lines 532-546: the early return, or the per-line encoding with its size
\* check.
SplitStart ==
    /\ spc = "start"
    /\ IF EncodedSize(lines) <= AMA_MAX_BYTES
       THEN /\ result' = <<[name |-> filename, lines |-> lines]>>
            /\ spc' = "done"
            /\ UNCHANGED <<encoded_lines, serr>>
       ELSE IF \E i \in 1..Len(lines) : EncodeLineLen(lines[i]) > AMA_MAX_BYTES
       THEN /\ serr' = "line_too_large"
            /\ spc' = "error"
            /\ UNCHANGED <<encoded_lines, result>>
       ELSE /\ encoded_lines' = lines
            /\ spc' = "loop"
            /\ UNCHANGED <<result, serr>>
    /\ UNCHANGED <<filename, lines, index, current, current_size, segments>>
    /\ UNCHANGED exceptSplit

\* Lines 558-565: the next line fits the current segment.
SplitAppend ==
    /\ spc = "loop"
    /\ index < Len(encoded_lines)
    /\ LET line == encoded_lines[index + 1]
       IN  /\ current_size + EncodeLineLen(line) <= AMA_MAX_BYTES
           /\ current' = Append(current, line)
           /\ current_size' = current_size + EncodeLineLen(line)
           /\ index' = index + 1
    /\ UNCHANGED <<spc, filename, lines, encoded_lines, segments, result, serr>>
    /\ UNCHANGED exceptSplit

\* The work list may grow without limit (see SplitFlush); the model follows
\* it up to this length.
EncodedCap == (MaxLines + 2) * (MaxLines + 2)

\* Lines 566-576: the next line does not fit: fail on an empty segment, else
\* pop back and flush.
SplitFlush ==
    /\ spc = "loop"
    /\ index < Len(encoded_lines)
    /\ current_size + EncodeLineLen(encoded_lines[index + 1]) > AMA_MAX_BYTES
    /\ IF current = <<>>
       THEN /\ serr' = "line_too_large"
            /\ spc' = "error"
            /\ UNCHANGED <<encoded_lines, current, current_size, segments>>
       ELSE LET p == PopBack(current, current_size, encoded_lines, index)
            IN  /\ Len(p.encoded_lines) <= EncodedCap
                /\ encoded_lines' = p.encoded_lines
                /\ segments' = Append(segments, p.current)
                /\ current' = <<>>
                /\ current_size' = 0
                /\ UNCHANGED <<spc, serr>>
    /\ UNCHANGED <<filename, lines, index, result>>
    /\ UNCHANGED exceptSplit

\* Lines 578-615: the last segment, the names, the continuation links.
SplitFinish ==
    /\ spc = "loop"
    /\ index >= Len(encoded_lines)
    /\ LET all == IF current # <<>> THEN Append(segments, current) ELSE segments
           segs == NonEmptySegments(all)
       IN  IF segs = <<>>
           THEN /\ result' = <<[name |-> filename, lines |-> lines]>>
                /\ spc' = "done"
                /\ UNCHANGED <<segments, serr>>
           ELSE LET generated == GenerateNames(filename, Len(segs), 0, <<>>, {})
                    r == BuildResult(segs, generated, 1, <<>>)
                IN  /\ segments' = segs
                    /\ result' = r.result
                    /\ serr' = r.err
                    /\ spc' = IF r.err = "none" THEN "done" ELSE "error"
    /\ UNCHANGED <<filename, lines, encoded_lines, index, current, current_size>>
    /\ UNCHANGED exceptSplit

SplitNext == SplitStart \/ SplitAppend \/ SplitFlush \/ SplitFinish

\* ------------------------------------------------------- collect_articles

\* Character classes of the ASCII characters the model's stems are made of.
IsDigit(c) == c \in 48..57

IsAlnum(c) == c \in (48..57) \cup (65..90) \cup (97..122)

\* "INDEX.AMA"
INDEX_AMA == <<73, 78, 68, 69, 88>> \o AMA_EXT

\* Mutant: a name is never taken to be in use.
NameTakenNever(name, existing) == FALSE

\* while name in existing
NameTaken(name, existing) == name \in existing

\* The collision loop of assign_ama_name.
RECURSIVE AssignLoop(_, _, _, _)
AssignLoop(name, base, existing, counter) ==
    IF NameTaken(name, existing)
    THEN LET suffix == Fmt02(counter)
             trimmed == Prefix(base, Max(1, 8 - Len(suffix)))
         IN  AssignLoop(trimmed \o suffix \o AMA_EXT, base, existing, counter + 1)
    ELSE name

assign_ama_name(stem, existing) ==
    LET mapped == [i \in 1..Len(stem) |->
                      IF IsAlnum(Upper(stem[i])) THEN Upper(stem[i]) ELSE 95]
        nonempty == IF mapped = <<>> THEN <<65, 82, 84, 73, 67, 76, 69>> ELSE mapped
        prefixed == IF IsDigit(nonempty[1]) THEN <<95>> \o nonempty ELSE nonempty
        base == Prefix(prefixed, 8)
    IN  AssignLoop(base \o AMA_EXT, base, existing, 1)

RootPath == 0

SmallPaths == 0..MaxPath

\* A linked file that does not exist.
MissingPath == MaxPath + 1

BulkPaths == (MaxPath + 2)..(MaxPath + 1 + BulkCount)

AllPaths == SmallPaths \cup {MissingPath} \cup BulkPaths

BulkList == [i \in 1..BulkCount |-> MaxPath + 1 + i]

NextPath(p) == (p + 1) % (MaxPath + 1)

\* index, a, A01, foo-barbaz, 9x
Stems ==
    {<<105, 110, 100, 101, 120>>, <<97>>, <<65, 48, 49>>,
     <<102, 111, 111, 45, 98, 97, 114, 98, 97, 122>>, <<57, 120>>}

\* "a": the stem the bulk files share.
BulkStem == <<97>>

\* The root's links in the star-shaped book: all bulk files, then one more.
StarLinks == BulkList \o <<NextPath(RootPath)>>

\* What find_local_markdown_links may return for file p.  In the star-shaped
\* book only the root has links.  Otherwise: no link, a self-link with a
\* repeated link, two links back and forth, a link to a missing file.
LinkChoices(p) ==
    IF p \in BulkPaths \/ graph[RootPath] = StarLinks THEN {<<>>}
    ELSE {<<>>, <<p, NextPath(p), NextPath(p)>>,
          <<NextPath(NextPath(p)), NextPath(p)>>, <<NextPath(p), MissingPath>>}
         \cup (IF p = RootPath THEN {StarLinks} ELSE {})

StemChoices(p) == IF p \in BulkPaths THEN {BulkStem} ELSE Stems

Unread == <<-1>>

VisitedPaths == {visited[i].path : i \in 1..Len(visited)}

\* Mutant: the visited check is dropped.
AlreadyVisitedNever(path) == FALSE

\* if current in visited
AlreadyVisited(path) == path \in VisitedPaths

\* visited[current] = Article(...)
VisitedPut(d, path, name) ==
    IF \E i \in 1..Len(d) : d[i].path = path
    THEN [i \in 1..Len(d) |-> IF d[i].path = path THEN [path |-> path, ama_name |-> name] ELSE d[i]]
    ELSE Append(d, [path |-> path, ama_name |-> name])

\* The deque may hold each file at most once per link to it.
QueueCap == 3 * (MaxPath + 1) + BulkCount + 1

\* Lines 433-436: the dequeued path was visited before.
CollectSkip ==
    /\ cpc = "run"
    /\ queue # <<>>
    /\ AlreadyVisited(Head(queue))
    /\ queue' = Tail(queue)
    /\ UNCHANGED <<cpc, visited, assigned_names, stems, graph, assignments>>
    /\ UNCHANGED exceptCollect

\* Lines 437-438: the dequeued path does not exist.
CollectMissing ==
    /\ cpc = "run"
    /\ queue # <<>>
    /\ ~AlreadyVisited(Head(queue))
    /\ Head(queue) = MissingPath
    /\ cpc' = "error"
    /\ queue' = Tail(queue)
    /\ UNCHANGED <<visited, assigned_names, stems, graph, assignments>>
    /\ UNCHANGED exceptCollect

\* Lines 439-447: the dequeued file gets its name and its links are queued.
\* The file's stem and links are fixed when it is read.
CollectVisit ==
    /\ cpc = "run"
    /\ queue # <<>>
    /\ LET currentPath == Head(queue)
       IN  /\ ~AlreadyVisited(currentPath)
           /\ currentPath # MissingPath
           /\ \E st \in (IF stems[currentPath] = Unread THEN StemChoices(currentPath) ELSE {stems[currentPath]}),
                 ls \in (IF graph[currentPath] = Unread THEN LinkChoices(currentPath) ELSE {graph[currentPath]}) :
                 LET ama_name == IF currentPath = RootPath THEN INDEX_AMA
                                 ELSE assign_ama_name(st, assigned_names)
                 IN  /\ Len(Tail(queue)) + Len(ls) <= QueueCap
                     /\ stems' = [stems EXCEPT ![currentPath] = st]
                     /\ graph' = [graph EXCEPT ![currentPath] = ls]
                     /\ assigned_names' = assigned_names \cup {ama_name}
                     /\ visited' = VisitedPut(visited, currentPath, ama_name)
                     /\ assignments' = Append(assignments, currentPath)
                     /\ queue' = Tail(queue) \o ls
    /\ UNCHANGED cpc
    /\ UNCHANGED exceptCollect

\* Line 449: the queue is empty.
CollectReturn ==
    /\ cpc = "run"
    /\ queue = <<>>
    /\ cpc' = "done"
    /\ UNCHANGED <<queue, visited, assigned_names, stems, graph, assignments>>
    /\ UNCHANGED exceptCollect

CollectNext == CollectSkip \/ CollectMissing \/ CollectVisit \/ CollectReturn

CollectReset ==
    /\ cpc = "run"
    /\ queue = <<RootPath>>
    /\ visited = <<>>
    /\ assigned_names = {}
    /\ stems = [p \in AllPaths |-> Unread]
    /\ graph = [p \in AllPaths |-> Unread]
    /\ assignments = <<>>

\* ------------------------------------------------------ bytes and integers

\* struct.pack("<H", n) and struct.pack("<I", n), for n in range.
LE16(n) == <<n % 256, (n \div 256) % 256>>

LE32(n) == <<n % 256, (n \div 256) % 256, (n \div 65536) % 256, (n \div 16777216) % 256>>

FitsU16(n) == n >= 0 /\ n <= 65535

\* n < 2^32, written within the integers TLC computes with.
FitsU32(n) == n >= 0 /\ (n \div 65536) <= 65535

RECURSIVE Flatten(_)
Flatten(ss) == IF ss = <<>> THEN <<>> ELSE Head(ss) \o Flatten(Tail(ss))

\* Lexicographic order of strings by code point.
RECURSIVE LexLess(_, _)
LexLess(a, b) ==
    IF b = <<>> THEN FALSE
    ELSE IF a = <<>> THEN TRUE
    ELSE IF a[1] # b[1] THEN a[1] < b[1]
    ELSE LexLess(Tail(a), Tail(b))

\* sorted(...) of the items of a dict by their name (the names of a dict are
\* distinct): the item with i-1 names below its own comes i-th.
SortByName(d) ==
    LET n == Len(d)
        below == SubSeq([j \in 1..n |->
                            Cardinality({k \in 1..n : LexLess(d[k].name, d[j].name)})],
                        1, n)
    IN  [i \in 1..n |-> d[CHOOSE j \in 1..n : below[j] = i - 1]]

\* ------------------------------------------------------ codepage encoding

\* The encode map is a set of <<code point, byte>> pairs with one pair per
\* code point.
EncodeMapKeys(em) == {pr[1] : pr \in em}

EncodeMapGet(em, codepoint) ==
    IF codepoint \in EncodeMapKeys(em)
    THEN (CHOOSE pr \in em : pr[1] = codepoint)[2]
    ELSE -1

\* Mutant: a later byte position overwrites an earlier one.
EncodeMapStoreLast(em, codepoint, idx) ==
    IF codepoint >= 128
    THEN {pr \in em : pr[1] # codepoint} \cup {<<codepoint, idx>>}
    ELSE em

\* if codepoint >= 128 and codepoint not in encode_map: encode_map[codepoint] = idx
EncodeMapStore(em, codepoint, idx) ==
    IF codepoint >= 128 /\ codepoint \notin EncodeMapKeys(em)
    THEN em \cup {<<codepoint, idx>>}
    ELSE em

\* _build_encode_map: the loop over enumerate(mapping, start=128), from
\* position i (1-based) on.
RECURSIVE BuildEncodeMap(_, _, _)
BuildEncodeMap(mapping, i, em) ==
    IF i > Len(mapping) THEN em
    ELSE BuildEncodeMap(mapping, i + 1, EncodeMapStore(em, mapping[i], 128 + i - 1))

\* _encode_with_map: the bytes, or the failure on the first character that
\* has no byte.
RECURSIVE EncodeWithMap(_, _)
EncodeWithMap(text, em) ==
    IF text = <<>> THEN [ok |-> TRUE, bytes |-> <<>>]
    ELSE LET codepoint == Head(text)
             value == IF codepoint < 128 THEN codepoint ELSE EncodeMapGet(em, codepoint)
             rest == EncodeWithMap(Tail(text), em)
         IN  IF value = -1 \/ ~rest.ok
             THEN [ok |-> FALSE, bytes |-> <<>>]
             ELSE [ok |-> TRUE, bytes |-> <<value>> \o rest.bytes]

\* codepage.encode for a codepage built from a unicode map.
CodepageEncode(text, mapping) == EncodeWithMap(text, BuildEncodeMap(mapping, 1, {}))

\* _unicode_map_bytes
RECURSIVE UnicodeMapBytes(_)
UnicodeMapBytes(mapping) ==
    IF mapping = <<>> THEN <<>> ELSE LE16(Head(mapping)) \o UnicodeMapBytes(Tail(mapping))

\* _has_high_bit
HasHighBit(data) == \E i \in 1..Len(data) : data[i] >= 128

\* -------------------------------------------- assemble_files and pack_amb

\* "\n".join(lines)
RECURSIVE JoinLines(_)
JoinLines(ls) ==
    IF ls = <<>> THEN <<>>
    ELSE IF Len(ls) = 1 THEN ls[1]
    ELSE ls[1] \o <<10>> \o JoinLines(Tail(ls))

\* text.rstrip("\n")
RECURSIVE RStripNewlines(_)
RStripNewlines(text) ==
    IF text # <<>> /\ text[Len(text)] = 10
    THEN RStripNewlines(SubSeq(text, 1, Len(text) - 1))
    ELSE text

\* The text encode_ama encodes.
AmaContent(ls) == RStripNewlines(JoinLines(ls)) \o <<10>>

\* encode_ama: the payload, or the ValueError.
encode_ama(ls, mapping) ==
    IF \E i \in 1..Len(ls) : \E k \in 1..Len(ls[i]) : ls[i][k] = 9
    THEN [err |-> "tab_in_article", data |-> <<>>]
    ELSE LET enc == CodepageEncode(AmaContent(ls), mapping)
         IN  IF ~enc.ok THEN [err |-> "not_representable", data |-> <<>>]
             ELSE IF Len(enc.bytes) > AMA_MAX_BYTES
             THEN [err |-> "article_too_large", data |-> <<>>]
             ELSE [err |-> "none", data |-> enc.bytes]

\* "TITLE", "UNICODE.MAP", "DICT.IDX"
TITLE_NAME == <<84, 73, 84, 76, 69>>

UNICODE_MAP_NAME == <<85, 78, 73, 67, 79, 68, 69, 46, 77, 65, 80>>

DICT_IDX_NAME == <<68, 73, 67, 84, 46, 73, 68, 88>>

\* text.encode("ascii", "ignore")
AsciiIgnore(text) == SelectSeq(text, LAMBDA c : c < 128)

\* title.encode("ascii", "ignore")[:64]
TitleBytes(t) == Prefix(AsciiIgnore(t), 64)

\* dict.pop(key): the dict without the key.
DictWithout(d, k) == SelectSeq(d, LAMBDA x : x.name # k)

DictGet(d, k) == (CHOOSE i \in 1..Len(d) : d[i].name = k)

\* The encode loop of assemble_files over (name, lines) pairs: the files, or
\* the first error.
RECURSIVE EncodeAll(_, _, _)
EncodeAll(pairs, mapping, acc) ==
    IF pairs = <<>> THEN [err |-> "none", files |-> acc]
    ELSE LET r == encode_ama(Head(pairs).lines, mapping)
         IN  IF r.err # "none" THEN [err |-> r.err, files |-> <<>>]
             ELSE EncodeAll(Tail(pairs), mapping,
                            Append(acc, [name |-> Head(pairs).name, data |-> r.data]))

\* Mutant: only INDEX.AMA is scanned for high bytes.
HighBitUsedIndexOnly(amaFiles) == HasHighBit(amaFiles[1].data)

\* high_bit_used, over the encoded AMA files.
HighBitUsed(amaFiles) == \E i \in 1..Len(amaFiles) : HasHighBit(amaFiles[i].data)

\* assemble_files: TITLE, INDEX.AMA, the other articles sorted by name,
\* UNICODE.MAP.
assemble_files(contents, t, mapping) ==
    LET titleFiles == IF t # <<>> THEN <<[name |-> TITLE_NAME, data |-> TitleBytes(t)]>>
                      ELSE <<>>
        indexEntry == contents[DictGet(contents, INDEX_AMA)]
        others == SortByName(DictWithout(contents, INDEX_AMA))
        enc == EncodeAll(<<indexEntry>> \o others, mapping, <<>>)
    IN  IF enc.err # "none" THEN [err |-> enc.err, files |-> <<>>]
        ELSE [err |-> "none",
              files |-> titleFiles \o enc.files \o
                        (IF HighBitUsed(enc.files)
                         THEN <<[name |-> UNICODE_MAP_NAME, data |-> UnicodeMapBytes(mapping)]>>
                         ELSE <<>>)]

\* One byte of bsd_checksum: rotate right within 16 bits, add the byte.
BsdStep(checksum, byte) ==
    ((checksum \div 2) + (checksum % 2) * 32768 + byte) % 65536

\* The loop of bsd_checksum over data[lo..hi], entered with the given
\* checksum: the first half, then the second half entered with the result
\* of the first (the bound variable holds it as a value, computed once).
RECURSIVE BsdChecksumRange(_, _, _, _)
BsdChecksumRange(data, lo, hi, checksum) ==
    IF lo > hi THEN checksum
    ELSE IF lo = hi THEN BsdStep(checksum, data[lo])
    ELSE LET mid == (lo + hi) \div 2
         IN  CHOOSE r \in {BsdChecksumRange(data, mid + 1, hi, half) :
                               half \in {BsdChecksumRange(data, lo, mid, checksum)}} : TRUE

bsd_checksum(data) == BsdChecksumRange(data, 1, Len(data), 0)

\* Mutant: a directory entry is taken to be 18 bytes long.
PayloadStartShort(n) == 6 + 18 * n

\* offset = 6 + 20 * len(files)
PayloadStart(n) == 6 + 20 * n

\* lengths[lo] + ... + lengths[hi], by halves.
RECURSIVE SumRange(_, _, _)
SumRange(lengths, lo, hi) ==
    IF lo > hi THEN 0
    ELSE IF lo = hi THEN lengths[lo]
    ELSE SumRange(lengths, lo, (lo + hi) \div 2)
         + SumRange(lengths, (lo + hi) \div 2 + 1, hi)

\* The running offset of pack_amb and compute_file_offsets: each payload
\* starts where the directory ends plus the lengths of the payloads before
\* it.
PayloadOffsets(lengths, total_files) ==
    [i \in 1..Len(lengths) |-> PayloadStart(total_files) + SumRange(lengths, 1, i - 1)]

\* name.encode("ascii", "ignore"), NUL-padded to 12 bytes.
PaddedName(name) ==
    LET raw == AsciiIgnore(name)
    IN  raw \o [i \in 1..(12 - Len(raw)) |-> 0]

UpperName(name) == [i \in 1..Len(name) |-> Upper(name[i])]

AMB_MAGIC == <<65, 77, 66, 49>>

\* pack_amb: the archive bytes, or the error.
pack_amb(fs) ==
    LET n == Len(fs)
        lengths == [i \in 1..n |-> Len(fs[i].data)]
        offsets == PayloadOffsets(lengths, n)
        entry(i) == PaddedName(UpperName(fs[i].name)) \o LE32(offsets[i])
                    \o LE16(lengths[i]) \o LE16(bsd_checksum(fs[i].data))
    IN  IF \E i \in 1..n : Len(UpperName(fs[i].name)) > 12
        THEN [err |-> "invalid_filename", bytes |-> <<>>]
        ELSE IF \/ ~FitsU16(n)
                \/ \E i \in 1..n : ~FitsU32(offsets[i]) \/ ~FitsU16(lengths[i])
        THEN [err |-> "struct.error", bytes |-> <<>>]
        ELSE [err |-> "none",
              bytes |-> AMB_MAGIC \o LE16(n) \o Flatten([i \in 1..n |-> entry(i)])
                        \o Flatten([i \in 1..n |-> fs[i].data])]

\* build_amb, lines 398-400, for a book whose articles hold no indexable
\* word: the rendered contents are assembled.
AssembleFiles ==
    /\ bpc = "assemble"
    /\ LET r == assemble_files(ama_contents, title, unicode_map)
       IN  /\ files' = r.files
           /\ berr' = r.err
           /\ bpc' = IF r.err = "none" THEN "pack" ELSE "error"
    /\ UNCHANGED <<unicode_map, title, ama_contents, archive>>
    /\ UNCHANGED exceptBytes

\* build_amb, lines 402-424, for such a book: build_dict_index returns None
\* (line 285), so the base files are packed.
PackAmb ==
    /\ bpc = "pack"
    /\ LET r == pack_amb(files)
       IN  /\ archive' = r.bytes
           /\ berr' = r.err
           /\ bpc' = IF r.err = "none" THEN "done" ELSE "error"
    /\ UNCHANGED <<unicode_map, title, ama_contents, files>>
    /\ UNCHANGED exceptBytes

BytesNext == AssembleFiles \/ PackAmb

\* ------------------------------------------------ words and the word hash

WORD_MIN_LENGTH == 2

WORD_MAX_LENGTH == 17

\* The union of the first n sets of a sequence of sets.
RECURSIVE UnionOf(_, _)
UnionOf(sets, n) == IF n = 0 THEN {} ELSE sets[n] \cup UnionOf(sets, n - 1)

\* extract_words: the alphanumeric runs of the lines whose length is within
\* the limits.
extract_words(ls) ==
    {w \in UnionOf([i \in 1..Len(ls) |-> ls[i].words], Len(ls)) :
        WORD_MIN_LENGTH <= Len(w.text) /\ Len(w.text) <= WORD_MAX_LENGTH}

\* a ^ b on four bits.
Xor4(a, b) ==
    ((a + b) % 2)
    + 2 * (((a \div 2) + (b \div 2)) % 2)
    + 4 * (((a \div 4) + (b \div 4)) % 2)
    + 8 * (((a \div 8) + (b \div 8)) % 2)

\* checksum ^= (byte & 0x0F), over the first n bytes.
RECURSIVE NibbleXor(_, _)
NibbleXor(encoded_word, n) ==
    IF n = 0 THEN 0
    ELSE CHOOSE r \in {Xor4(c, encoded_word[n] % 16) :
                          c \in {NibbleXor(encoded_word, n - 1)}} : TRUE

\* compute_word_hash, for the lengths 2..17 build_dict_index lets through.
compute_word_hash(encoded_word) ==
    (Len(encoded_word) - 2) * 16 + NibbleXor(encoded_word, Len(encoded_word))

\* ---------------------------------------------------------- render_articles

\* The store loop of render_articles over the items of one split_article
\* result (its names are distinct, it being a dict): rendered[name] = lines.
StoreRendered(rend, pairs) ==
    [i \in 1..Len(rend) |->
        IF HasKey(pairs, rend[i].name)
        THEN pairs[CHOOSE j \in 1..Len(pairs) : pairs[j].name = rend[i].name]
        ELSE rend[i]]
    \o SelectSeq(pairs, LAMBDA x : ~HasKey(rend, x.name))

\* The same loop on word_index: setdefault(name, set()).update(words) for
\* every item that has words.
StoreWords(widx, pairs) ==
    LET withWords == SelectSeq(pairs, LAMBDA x : extract_words(x.lines) # {})
        wordsOf(name) ==
            extract_words(withWords[CHOOSE j \in 1..Len(withWords) :
                                       withWords[j].name = name].lines)
    IN  [i \in 1..Len(widx) |->
            IF HasKey(withWords, widx[i].name)
            THEN [name |-> widx[i].name,
                  words |-> widx[i].words \cup wordsOf(widx[i].name)]
            ELSE widx[i]]
        \o [j \in 1..Len(SelectSeq(withWords, LAMBDA x : ~HasKey(widx, x.name))) |->
               LET x == SelectSeq(withWords, LAMBDA y : ~HasKey(widx, y.name))[j]
               IN  [name |-> x.name, words |-> extract_words(x.lines)]]

\* inverted_index: word -> the filenames whose word set holds it, as the
\* set of its <<word, filename>> pairs.
InvertIndex(widx) ==
    LET names == {widx[i].name : i \in 1..Len(widx)}
        wordsOf(name) == widx[CHOOSE i \in 1..Len(widx) : widx[i].name = name].words
        all == UnionOf([i \in 1..Len(widx) |-> widx[i].words], Len(widx))
    IN  {pr \in all \X names : pr[1] \in wordsOf(pr[2])}

\* Line 490: the next article goes to split_article.
RenderBegin ==
    /\ kpc = "render"
    /\ article_index < Len(articles)
    /\ filename' = articles[article_index + 1].ama_name
    /\ lines' = articles[article_index + 1].lines
    /\ spc' = "start"
    /\ encoded_lines' = <<>>
    /\ index' = 0
    /\ current' = <<>>
    /\ current_size' = 0
    /\ segments' = <<>>
    /\ result' = <<>>
    /\ serr' = "none"
    /\ kpc' = "split"
    /\ UNCHANGED <<articles, article_index, rendered, word_index, inverted_index,
                   base_files, dict_err, dict_index, directory, kerr>>
    /\ UNCHANGED exceptBook

\* Lines 502-508: split_article has returned; its items are stored.
RenderStore ==
    /\ kpc = "split"
    /\ spc = "done"
    /\ rendered' = StoreRendered(rendered, result)
    /\ word_index' = StoreWords(word_index, result)
    /\ article_index' = article_index + 1
    /\ kpc' = "render"
    /\ spc' = "idle"
    /\ UNCHANGED <<filename, lines, encoded_lines, index, current, current_size,
                   segments, result, serr>>
    /\ UNCHANGED <<articles, inverted_index, base_files, dict_err, dict_index,
                   directory, kerr>>
    /\ UNCHANGED exceptBook

\* split_article has raised: the exception leaves build_amb.
RenderFail ==
    /\ kpc = "split"
    /\ spc = "error"
    /\ kerr' = serr
    /\ kpc' = "error"
    /\ spc' = "idle"
    /\ UNCHANGED <<filename, lines, encoded_lines, index, current, current_size,
                   segments, result, serr>>
    /\ UNCHANGED <<articles, article_index, rendered, word_index, inverted_index,
                   base_files, dict_err, dict_index, directory>>
    /\ UNCHANGED exceptBook

\* Lines 510-515: all articles are rendered; the index is inverted.
RenderReturn ==
    /\ kpc = "render"
    /\ article_index = Len(articles)
    /\ inverted_index' = InvertIndex(word_index)
    /\ kpc' = "assemble"
    /\ UNCHANGED <<articles, article_index, rendered, word_index, base_files,
                   dict_err, dict_index, directory, kerr>>
    /\ UNCHANGED splitVars
    /\ UNCHANGED exceptBook

\* ------------------------------------- assemble_files, on payload lengths

\* Entries of a codepage's unicode map: the bytes 128..255.
UNICODE_MAP_ENTRIES == 128

\* assemble_files with every payload reduced to its length: encode_ama's
\* payload is as long as _encoded_size tells.
AssembleLengths(contents, t) ==
    LET titleFiles == IF t # <<>>
                      THEN <<[name |-> TITLE_NAME, length |-> Len(TitleBytes(t))]>>
                      ELSE <<>>
        indexEntry == contents[DictGet(contents, INDEX_AMA)]
        others == SortByName(DictWithout(contents, INDEX_AMA))
        pairs == <<indexEntry>> \o others
        amaFiles == [i \in 1..Len(pairs) |->
                        [name |-> pairs[i].name, length |-> EncodedSize(pairs[i].lines)]]
        high_bit_used == \E i \in 1..Len(pairs) :
                             \E k \in 1..StrippedCount(pairs[i].lines) : pairs[i].lines[k].high
    IN  IF \E i \in 1..Len(amaFiles) : amaFiles[i].length > AMA_MAX_BYTES
        THEN [err |-> "article_too_large", files |-> <<>>]
        ELSE [err |-> "none",
              files |-> titleFiles \o amaFiles \o
                        (IF high_bit_used
                         THEN <<[name |-> UNICODE_MAP_NAME,
                                 length |-> 2 * UNICODE_MAP_ENTRIES]>>
                         ELSE <<>>)]

\* build_amb, line 400.
AssembleBook ==
    /\ kpc = "assemble"
    /\ LET r == AssembleLengths(rendered, title)
       IN  /\ base_files' = r.files
           /\ kerr' = r.err
           /\ kpc' = IF r.err = "none" THEN "dict1" ELSE "error"
    /\ UNCHANGED <<articles, article_index, rendered, word_index, inverted_index,
                   dict_err, dict_index, directory>>
    /\ UNCHANGED splitVars
    /\ UNCHANGED exceptBook

\* ------------------------------ compute_file_offsets and build_dict_index

\* compute_file_offsets: name.upper() -> payload offset (the last file of a
\* name wins).
compute_file_offsets(fs, include_dict) ==
    LET total_files == Len(fs) + (IF include_dict THEN 1 ELSE 0)
        offsets == PayloadOffsets([i \in 1..Len(fs) |-> fs[i].length], total_files)
    IN  [name \in {UpperName(fs[i].name) : i \in 1..Len(fs)} |->
            offsets[CHOOSE i \in 1..Len(fs) :
                       /\ UpperName(fs[i].name) = name
                       /\ \A k \in (i + 1)..Len(fs) : UpperName(fs[k].name) # name]]

\* sorted(...) of a set of integers: the one with i-1 elements below it
\* comes i-th.
SortedInts(S) ==
    LET below == {<<x, Cardinality({y \in S : y < x})>> : x \in S}
    IN  [i \in 1..Cardinality(S) |-> (CHOOSE pr \in below : pr[2] = i - 1)[1]]

\* sorted(...) of a set of words, the words of a family standing at the
\* place of its text.
SortedWords(S) ==
    LET below == {<<x, Cardinality({y \in S : LexLess(y.text, x.text)})>> : x \in S}
    IN  [i \in 1..Cardinality(S) |-> (CHOOSE pr \in below : pr[2] = i - 1)[1]]

\* The sum of values[x] over the elements x of S.
RECURSIVE SumValues(_, _)
SumValues(values, S) ==
    IF S = {} THEN 0
    ELSE LET x == CHOOSE y \in S : TRUE
         IN  values[x] + SumValues(values, S \ {x})

Buckets == 0..255

\* The most files a DICT.IDX entry can list (its count is one byte).
MAX_FILES_PER_WORD == 255

\* build_dict_index.  The words that get an entry are those of 2..17 bytes
\* with a file id (a word being ASCII, its encoding is the word).  The
\* buckets are written in ascending order: the count (struct.pack "<H") and
\* then the entries, each checked for its number of files; the length of
\* the bucket bodies is checked last.  The result is an exception, None, or
\* the index: per bucket its entries in word order (the words of a family
\* in one entry, their file ids being the same), and the byte length of
\* bodies plus hash table.
build_dict_index(widx, file_offsets) ==
    LET indexed == {name \in {pr[2] : pr \in widx} :
                       UpperName(name) \in DOMAIN file_offsets}
        filenames(w) == {name \in indexed : <<w, name>> \in widx}
        file_ids(w) == {file_offsets[UpperName(name)] : name \in filenames(w)}
        words == {w \in {pr[1] : pr \in widx} :
                     /\ 2 <= Len(w.text) /\ Len(w.text) <= 17
                     /\ file_ids(w) # {}}
        used == {compute_word_hash(w.text) : w \in words}
        entries(b) == {w \in words : compute_word_hash(w.text) = b}
        count(b) == SumValues([w \in words |-> w.copies], entries(b))
        failing == {b \in used :
                       \/ ~FitsU16(count(b))
                       \/ \E w \in entries(b) : Cardinality(file_ids(w)) > MAX_FILES_PER_WORD}
        first == CHOOSE b \in failing : \A c \in failing : b <= c
        cost == [w \in words |->
                    w.copies * (Len(w.text) + 1 + 4 * Cardinality(file_ids(w)))]
        lows == 2 * Cardinality(Buckets) + SumValues(cost, words)
    IN  IF words = {}
        THEN [err |-> "none", present |-> FALSE, index |-> <<>>, length |-> 0]
        ELSE IF failing # {}
        THEN [err |-> IF ~FitsU16(count(first))
                      THEN "struct.error" ELSE "too_many_files",
              present |-> FALSE, index |-> <<>>, length |-> 0]
        ELSE IF lows >= 65536
        THEN [err |-> "dictionary_too_large", present |-> FALSE, index |-> <<>>,
              length |-> 0]
        ELSE [err |-> "none", present |-> TRUE,
              index |-> [b \in Buckets |->
                            IF b \in used
                            THEN LET sorted_entries == SortedWords(entries(b))
                                 IN  [i \in 1..Len(sorted_entries) |->
                                         [word |-> sorted_entries[i],
                                          file_ids |-> SortedInts(file_ids(sorted_entries[i]))]]
                            ELSE <<>>],
              length |-> lows + 2 * Cardinality(Buckets)]

\* Exceptions of build_dict_index that are a ValueError.
ValueErrors == {"too_many_files", "dictionary_too_large"}

\* build_amb, lines 402-410: the first pass, on the offsets without a
\* DICT.IDX entry.  A ValueError or None leaves the base files; another
\* exception leaves build_amb.
DictPass1 ==
    /\ kpc = "dict1"
    /\ LET r == build_dict_index(inverted_index, compute_file_offsets(base_files, FALSE))
       IN  /\ dict_err' = r.err
           /\ kpc' = IF r.err \notin ValueErrors \cup {"none"} THEN "error"
                     ELSE IF r.present THEN "dict2" ELSE "pack"
           /\ kerr' = IF r.err \notin ValueErrors \cup {"none"} THEN r.err ELSE kerr
    /\ UNCHANGED <<articles, article_index, rendered, word_index, inverted_index,
                   base_files, dict_index, directory>>
    /\ UNCHANGED splitVars
    /\ UNCHANGED exceptBook

\* build_amb, lines 411-422: the second pass, on the offsets with the
\* DICT.IDX entry counted.
DictPass2 ==
    /\ kpc = "dict2"
    /\ LET r == build_dict_index(inverted_index, compute_file_offsets(base_files, TRUE))
       IN  /\ dict_err' = r.err
           /\ dict_index' = IF r.present THEN [index |-> r.index, length |-> r.length]
                            ELSE dict_index
           /\ kpc' = IF r.err \notin ValueErrors \cup {"none"} THEN "error" ELSE "pack"
           /\ kerr' = IF r.err \notin ValueErrors \cup {"none"} THEN r.err ELSE kerr
    /\ UNCHANGED <<articles, article_index, rendered, word_index, inverted_index,
                   base_files, directory>>
    /\ UNCHANGED splitVars
    /\ UNCHANGED exceptBook

\* The files build_amb hands to pack_amb.
PackedFiles ==
    IF dict_index = <<>> THEN base_files
    ELSE Append(base_files, [name |-> DICT_IDX_NAME, length |-> dict_index.length])

\* pack_amb with every payload reduced to its length: the directory, or the
\* error.
PackLengths(fs) ==
    LET n == Len(fs)
        lengths == [i \in 1..n |-> fs[i].length]
        offsets == PayloadOffsets(lengths, n)
    IN  IF \E i \in 1..n : Len(UpperName(fs[i].name)) > 12
        THEN [err |-> "invalid_filename", directory |-> <<>>]
        ELSE IF \/ ~FitsU16(n)
                \/ \E i \in 1..n : ~FitsU32(offsets[i]) \/ ~FitsU16(lengths[i])
        THEN [err |-> "struct.error", directory |-> <<>>]
        ELSE [err |-> "none",
              directory |-> [i \in 1..n |->
                                [name |-> UpperName(fs[i].name), offset |-> offsets[i],
                                 length |-> lengths[i]]]]

\* build_amb, line 424.
PackBook ==
    /\ kpc = "pack"
    /\ LET r == PackLengths(PackedFiles)
       IN  /\ directory' = r.directory
           /\ kerr' = r.err
           /\ kpc' = IF r.err = "none" THEN "done" ELSE "error"
    /\ UNCHANGED <<articles, article_index, rendered, word_index, inverted_index,
                   base_files, dict_err, dict_index>>
    /\ UNCHANGED splitVars
    /\ UNCHANGED exceptBook

BookNext ==
    \/ RenderBegin
    \/ SplitStart
    \/ SplitAppend
    \/ SplitFlush
    \/ SplitFinish
    \/ RenderStore
    \/ RenderFail
    \/ RenderReturn
    \/ AssembleBook
    \/ DictPass1
    \/ DictPass2
    \/ PackBook

\* ========================================================= specifications

\* The state of a component that takes no part in a specification.
CollectIdle ==
    /\ cpc = "idle"
    /\ queue = <<>>
    /\ visited = <<>>
    /\ assigned_names = {}
    /\ stems = <<>>
    /\ graph = <<>>
    /\ assignments = <<>>

BytesIdle ==
    /\ unicode_map = <<>>
    /\ title = <<>>
    /\ ama_contents = <<>>
    /\ files = <<>>
    /\ archive = <<>>
    /\ bpc = "idle"
    /\ berr = "none"

BookIdle ==
    /\ kpc = "idle"
    /\ articles = <<>>
    /\ article_index = 0
    /\ rendered = <<>>
    /\ word_index = <<>>
    /\ inverted_index = {}
    /\ base_files = <<>>
    /\ dict_err = "none"
    /\ dict_index = <<>>
    /\ directory = <<>>
    /\ kerr = "none"

SplitIdle ==
    /\ spc = "idle"
    /\ filename = <<>>
    /\ lines = <<>>
    /\ encoded_lines = <<>>
    /\ index = 0
    /\ current = <<>>
    /\ current_size = 0
    /\ segments = <<>>
    /\ result = <<>>
    /\ serr = "none"

\* ------------------------------------------ the splitter on its own inputs

\* Encoded line sizes around the limits the splitter tests.
LineSizes ==
    {1, 10, 30000, 35530,
     AMA_MAX_BYTES - continue_overhead, AMA_MAX_BYTES - continue_overhead + 1,
     AMA_MAX_BYTES, AMA_MAX_BYTES + 1}

\* INDEX.AMA, A.AMA, ABCDEFGH.AMA, ABCDEF01.AMA
SplitFilenames ==
    {<<73, 78, 68, 69, 88>> \o AMA_EXT,
     <<65>> \o AMA_EXT,
     <<65, 66, 67, 68, 69, 70, 71, 72>> \o AMA_EXT,
     <<65, 66, 67, 68, 69, 70, 48, 49>> \o AMA_EXT}

SourceLine(i, s) == [id |-> i, size |-> s, link |-> <<>>, words |-> {}, high |-> FALSE]

SplitInputs ==
    UNION {{[i \in 1..n |-> SourceLine(i, f[i])] : f \in [1..n -> LineSizes]} : n \in 0..MaxLines}

SplitReset ==
    /\ spc = "start"
    /\ encoded_lines = <<>>
    /\ index = 0
    /\ current = <<>>
    /\ current_size = 0
    /\ segments = <<>>
    /\ result = <<>>
    /\ serr = "none"

InitSplit ==
    /\ filename \in SplitFilenames
    /\ lines \in SplitInputs
    /\ SplitReset
    /\ CollectIdle
    /\ BytesIdle
    /\ BookIdle

SpecSplit == InitSplit /\ [][SplitNext]_vars

\* ------------------------------------------- collect_articles on its own

InitCollect ==
    /\ CollectReset
    /\ SplitIdle
    /\ BytesIdle
    /\ BookIdle

SpecCollect ==
    /\ InitCollect
    /\ [][CollectNext]_vars

\* ------------------------------------------ a small book, byte for byte

\* e-acute and the euro sign: the code points the drawn tables map.
MapCodepoints == {233, 8364}

\* Rendered articles without a word of two or more letters: no line, "A",
\* "e-acute A" with a trailing empty line, the euro sign.
TextChoices ==
    {<<>>, <<<<65>>>>, <<<<233, 32, 65>>, <<>>>>, <<<<8364>>>>}

\* None, "Hi", and a non-ASCII character followed by 65 letters.
TitleChoices == {<<>>, <<72, 105>>, <<233>> \o [i \in 1..65 |-> 84]}

\* Y.AMA, X.AMA, ...: names in descending order.
ExtraName(i) == <<90 - i>> \o AMA_EXT

ByteBooks ==
    UNION {{<<[name |-> INDEX_AMA, lines |-> f[1]]>>
              \o [i \in 1..n |-> [name |-> ExtraName(i), lines |-> f[i + 1]]] :
            f \in [1..(n + 1) -> TextChoices]} : n \in 0..MaxExtraArticles}

InitBytes ==
    /\ unicode_map \in [1..MapLen -> MapCodepoints]
    /\ title \in TitleChoices
    /\ ama_contents \in ByteBooks
    /\ files = <<>>
    /\ archive = <<>>
    /\ bpc = "assemble"
    /\ berr = "none"
    /\ SplitIdle
    /\ CollectIdle
    /\ BookIdle

SpecBytes == InitBytes /\ [][BytesNext]_vars

\* ------------------------------------------------------- the whole build

\* A single word.
Word(text) == [text |-> text, copies |-> 1]

\* Words: "ab" and "ba" (one bucket), "zz", a single letter, and runs of 17
\* and of 18 letters.
WordAb == Word(<<97, 98>>)

WordBa == Word(<<98, 97>>)

WordZz == Word(<<122, 122>>)

WordX == Word(<<120>>)

WordOfLength(n) == Word([i \in 1..n |-> 113])

BookLine(i, s, ws, h) == [id |-> i, size |-> s, link |-> <<>>, words |-> ws, high |-> h]

\* Rendered articles: no line; one short line; a line with a high byte
\* followed by an empty line; two lines that do not fit one file; a line
\* that is too long.
NoLines == <<>>

ShortText == <<BookLine(1, 10, {WordAb}, FALSE)>>

AccentedText ==
    <<BookLine(1, 60, {WordBa, WordAb, WordX, WordOfLength(WORD_MAX_LENGTH),
                       WordOfLength(WORD_MAX_LENGTH + 1)}, TRUE),
      BookLine(2, 1, {}, FALSE)>>

LongText == <<BookLine(1, 35530, {WordAb}, FALSE), BookLine(2, 35530, {WordZz}, FALSE)>>

HugeText == <<BookLine(1, AMA_MAX_BYTES + 1, {WordAb}, FALSE)>>

RootTexts == {NoLines, ShortText, AccentedText, LongText}

ArticleTexts == {ShortText, AccentedText, LongText, HugeText}

\* a, a01, b
BookStems == {<<97>>, <<97, 48, 49>>, <<98>>}

\* None, and "T" followed by a non-ASCII character.
BookTitles == {<<>>, <<84, 233>>}

\* The names collect_articles gives to the files of stems lo..hi, read in
\* this order, the names in existing being taken.
RECURSIVE AmaNamesFrom(_, _, _, _)
AmaNamesFrom(stemSeq, lo, hi, existing) ==
    IF lo > hi THEN <<>>
    ELSE IF lo = hi THEN <<assign_ama_name(stemSeq[lo], existing)>>
    ELSE LET mid == (lo + hi) \div 2
             left == AmaNamesFrom(stemSeq, lo, mid, existing)
         IN  left \o AmaNamesFrom(stemSeq, mid + 1, hi,
                                  existing \cup {left[i] : i \in 1..Len(left)})

\* The names of the root and of the files of the given stems.
AmaNames(stemSeq) ==
    <<INDEX_AMA>> \o AmaNamesFrom(stemSeq, 1, Len(stemSeq), {INDEX_AMA})

\* The articles of a book: the root and one file per stem, with their
\* rendered lines.
Book(stemSeq, texts) ==
    LET names == AmaNames(stemSeq)
    IN  [i \in 1..(Len(stemSeq) + 1) |-> [ama_name |-> names[i], lines |-> texts[i]]]

\* Files besides the root in a small book.
MaxBookArticles == 2

SmallBooks ==
    UNION {{Book(stemSeq, <<rootText>> \o texts) :
               stemSeq \in [1..n -> BookStems],
               rootText \in RootTexts,
               texts \in [1..n -> ArticleTexts]} : n \in 0..MaxBookArticles}

\* The stems "b1", "b2", ... of the files of a clone book.
CloneStem(i) == <<98>> \o Digits(i)

\* A root and as many files as an entry can list.  Every file holds the
\* same word, and the root holds it too or holds nothing.
CloneBooks ==
    {Book([i \in 1..MAX_FILES_PER_WORD |-> CloneStem(i)],
          <<t[1]>> \o [i \in 1..MAX_FILES_PER_WORD |-> t[2]]) :
        t \in {<<NoLines, ShortText>>, <<ShortText, ShortText>>}}

\* Letters of the words of a family, all different: they have more than
\* 65536 arrangements.
FamilyLetters == 9

\* The text of the k-th family (k in 1..16): "abcdefghi" with, for every bit
\* set in k-1, the letter at that place replaced by the one 16 codes up.
\* The families have different letters, one length and one XOR of the low
\* nibbles.
FamilyText(k) ==
    [i \in 1..FamilyLetters |->
        96 + i + (IF i <= 4 /\ ((k - 1) \div (2 ^ (i - 1))) % 2 = 1 THEN 16 ELSE 0)]

\* A line holding c words of the k-th family, a space or the newline after
\* each.
FamilyLine(k, c) ==
    BookLine(k, c * (FamilyLetters + 1),
             {[text |-> FamilyText(k), copies |-> c]}, FALSE)

\* Bytes of a DICT.IDX entry of such a word held by one file.
FamilyEntryBytes == FamilyLetters + 1 + 4

\* The most words for which DICT.IDX (bucket bodies and hash table) is a
\* payload pack_amb can record.
FullIndexWords == (65535 - 4 * Cardinality(Buckets)) \div FamilyEntryBytes

\* The fewest words whose bucket bodies reach 64 KiB.
OverflowWords == (65536 - 2 * Cardinality(Buckets)) \div FamilyEntryBytes + 1

\* The most words of a line that leaves the room of a continuation.
WideLineWords == (AMA_MAX_BYTES - continue_overhead) \div (FamilyLetters + 1)

\* The most such lines whose words a bucket can count.
WideLineCount == 65535 \div WideLineWords

\* A root without lines and one file of n lines of c words each, one family
\* per line.
FamilyBook(n, c) == Book(<<<<119>>>>, <<NoLines, [k \in 1..n |-> FamilyLine(k, c)]>>)

\* The most words DICT.IDX can hold, one more, the bucket bodies just too
\* long, and a bucket of the most words it can count and of more.
FamilyBooks ==
    {FamilyBook(1, FullIndexWords), FamilyBook(1, FullIndexWords + 1),
     FamilyBook(1, OverflowWords), FamilyBook(WideLineCount, WideLineWords),
     FamilyBook(WideLineCount + 1, WideLineWords)}

InitBook ==
    /\ articles \in SmallBooks \cup CloneBooks \cup FamilyBooks
    /\ title \in IF Len(articles) <= MaxBookArticles + 1 THEN BookTitles ELSE {<<>>}
    /\ kpc = "render"
    /\ article_index = 0
    /\ rendered = <<>>
    /\ word_index = <<>>
    /\ inverted_index = {}
    /\ base_files = <<>>
    /\ dict_err = "none"
    /\ dict_index = <<>>
    /\ directory = <<>>
    /\ kerr = "none"
    /\ unicode_map = <<>>
    /\ ama_contents = <<>>
    /\ files = <<>>
    /\ archive = <<>>
    /\ bpc = "idle"
    /\ berr = "none"
    /\ SplitIdle
    /\ CollectIdle

SpecBook == InitBook /\ [][BookNext]_vars

\* ----------------------------------------------- claims about the splitter

SplitDone == spc = "done"

\* The returned lines of segment i without the two lines the splitter adds
\* to a non-terminal segment.
WithoutTrailer(i) ==
    LET ls == result[i].lines
    IN  IF i < Len(result) THEN SubSeq(ls, 1, Len(ls) - 2) ELSE ls

RECURSIVE ConcatSegments(_)
ConcatSegments(i) ==
    IF i > Len(result) THEN <<>> ELSE WithoutTrailer(i) \o ConcatSegments(i + 1)

\* C3: when split_article returns more than one segment, every segment as
\* stored (a non-terminal one with its blank line and continuation link)
\* encodes to at most AMA_MAX_BYTES, and the "Unable to split" error is never
\* raised.
C3_SegmentsFit ==
    /\ (SplitDone /\ Len(result) > 1) =>
           \A i \in 1..Len(result) : EncodedSize(result[i].lines) <= AMA_MAX_BYTES
    /\ serr # "unable_to_split"

\* C3 witness: a split whose first segment, with a 12-character continuation
\* target, fills the file to the last byte.
C3_Witness ==
    /\ SplitDone
    /\ Len(result) > 1
    /\ EncodedSize(result[1].lines) = AMA_MAX_BYTES
    /\ Len(result[2].name) = Len(placeholder_target)

\* C9: after a split into n >= 2 segments the first keeps the original
\* filename, the keys are n distinct names, every non-terminal segment ends
\* with an empty line and the link to the next segment's name, and the
\* terminal segment holds no added line.
C9_ContinuationChain ==
    (SplitDone /\ Len(segments) >= 2) =>
        /\ Len(result) = Len(segments)
        /\ result[1].name = filename
        /\ \A i, j \in 1..Len(result) : i # j => result[i].name # result[j].name
        /\ \A i \in 1..(Len(result) - 1) :
               LET ls == result[i].lines
               IN  /\ Len(ls) >= 2
                   /\ ls[Len(ls) - 1] = BlankLine
                   /\ ls[Len(ls)] = LinkLine(result[i + 1].name)
        /\ \A k \in 1..Len(result[Len(result)].lines) :
               result[Len(result)].lines[k].id # 0

\* C9 witness: three segments of an article whose first generated name
\* collides with its own filename.
C9_Witness ==
    /\ SplitDone
    /\ Len(result) = 3
    /\ filename = <<65, 66, 67, 68, 69, 70, 48, 49>> \o AMA_EXT
    /\ result[2].name = <<65, 66, 67, 68, 69, 48, 49, 49>> \o AMA_EXT

\* C10 as stated: whenever split_article returns, the segments without
\* their added trailers concatenate to the input, and no returned segment is
\* empty.
C10_PartitionNoEmpty ==
    SplitDone =>
        /\ ConcatSegments(1) = lines
        /\ \A i \in 1..Len(result) : result[i].lines # <<>>

\* C10 amended: whenever split_article returns, the segments without their
\* added trailers concatenate to the input, and no returned segment is empty
\* unless the input itself is the empty list.
C10_Partition ==
    SplitDone =>
        /\ ConcatSegments(1) = lines
        /\ lines # <<>> => \A i \in 1..Len(result) : result[i].lines # <<>>

\* C10 witness: a split in which the pop-back step moved a line.
C10_Witness ==
    /\ SplitDone
    /\ Len(result) >= 2
    /\ Len(encoded_lines) > Len(lines)

\* ------------------------------------------ claims about collect_articles

\* The local Markdown links of a file that was read.
LinkSet(p) == IF graph[p] = Unread THEN {} ELSE {graph[p][i] : i \in 1..Len(graph[p])}

\* The paths reachable from the paths in S by following links.
RECURSIVE ReachFrom(_)
ReachFrom(S) ==
    LET T == S \cup UNION {LinkSet(p) : p \in S}
    IN  IF T = S THEN S ELSE ReachFrom(T)

CollectDone == cpc = "done"

\* A bound on the steps collect_articles has left: every visit takes a file
\* out of the unvisited ones and every other step shortens the queue.
CollectMeasure ==
    (Cardinality(AllPaths) - Len(visited)) * (2 * QueueCap + 4)
        + 2 * Len(queue) + (IF cpc = "run" THEN 1 ELSE 0)

\* C7: collect_articles terminates (while it runs a step is possible, and
\* every step lowers CollectMeasure, which is never negative); it fails only
\* when a reachable link names a missing file; and when it returns, the keys
\* of its result are exactly the paths reachable from the root, each of
\* which was given a name once.
C7_ReachableOnce ==
    /\ [](CollectDone =>
            /\ VisitedPaths = ReachFrom({RootPath})
            /\ Len(visited) = Cardinality(VisitedPaths)
            /\ Len(assignments) = Len(visited)
            /\ {assignments[i] : i \in 1..Len(assignments)} = VisitedPaths)
    /\ [](cpc = "error" => MissingPath \in ReachFrom({RootPath}))
    /\ [](cpc = "run" => ENABLED CollectNext)
    /\ [](CollectMeasure >= 0)
    /\ [][CollectMeasure' < CollectMeasure]_vars

\* C7 witness: a graph with a self-link, a repeated link and a cycle through
\* the root, all three files collected.
C7_Witness ==
    /\ CollectDone
    /\ graph[RootPath] = <<RootPath, NextPath(RootPath), NextPath(RootPath)>>
    /\ RootPath \in LinkSet(MaxPath)
    /\ Len(visited) = MaxPath + 1

NameOf(i) == visited[i].ama_name

WellFormedName(name) ==
    /\ Len(name) > Len(AMA_EXT)
    /\ Len(Stem(name)) <= 8
    /\ SubSeq(name, Len(name) - Len(AMA_EXT) + 1, Len(name)) = AMA_EXT

\* C8: after collect_articles the names are pairwise distinct, each is a
\* stem of at most 8 characters followed by ".AMA", and an article is named
\* INDEX.AMA exactly when it is the root.
C8_NamesDistinct ==
    CollectDone =>
        /\ \A i, j \in 1..Len(visited) : i # j => NameOf(i) # NameOf(j)
        /\ \A i \in 1..Len(visited) :
               /\ WellFormedName(NameOf(i))
               /\ (visited[i].path = RootPath) <=> (NameOf(i) = INDEX_AMA)

\* C8 witness: the collision counter reached three digits (A100.AMA) and a
\* non-root file whose stem is "index" was named INDEX01.AMA.
C8_Witness ==
    /\ CollectDone
    /\ \E i \in 1..Len(visited) : NameOf(i) = <<65, 49, 48, 48>> \o AMA_EXT
    /\ \E i \in 1..Len(visited) :
           /\ visited[i].path # RootPath
           /\ stems[visited[i].path] = <<105, 110, 100, 101, 120>>
           /\ NameOf(i) = <<73, 78, 68, 69, 88, 48, 49>> \o AMA_EXT

\* --------------------------------- claims about the archive, byte for byte

\* The archive read back: the entry count, and the fields of directory
\* entry i (0-based).
U16At(pos) == archive[pos + 1] + 256 * archive[pos + 2]

U32At(pos) == U16At(pos) + 65536 * U16At(pos + 2)

StoredCount == U16At(4)

StoredOffset(i) == U32At(6 + 20 * i + 12)

StoredLength(i) == U16At(6 + 20 * i + 16)

RECURSIVE StoredLengthsBefore(_)
StoredLengthsBefore(i) ==
    IF i = 0 THEN 0 ELSE StoredLength(i - 1) + StoredLengthsBefore(i - 1)

\* C1: in every archive pack_amb returns, with N the stored entry count,
\* the offset stored for entry i is 6 + 20*N plus the stored lengths of the
\* entries before it, and the bytes at that position are entry i's payload;
\* the payloads end the archive.
C1_OffsetsArePositions ==
    bpc = "done" =>
        /\ StoredCount = Len(files)
        /\ \A i \in 0..(StoredCount - 1) :
               /\ StoredOffset(i) = 6 + 20 * StoredCount + StoredLengthsBefore(i)
               /\ StoredLength(i) = Len(files[i + 1].data)
               /\ SubSeq(archive, StoredOffset(i) + 1, StoredOffset(i) + StoredLength(i))
                      = files[i + 1].data
        /\ Len(archive) = 6 + 20 * StoredCount + StoredLengthsBefore(StoredCount)

\* C1 witness: an archive of five entries (TITLE, three articles,
\* UNICODE.MAP) whose last payload starts after payloads of different
\* lengths.
C1_Witness ==
    /\ bpc = "done"
    /\ StoredCount = 5
    /\ StoredLength(0) = 64
    /\ StoredLength(1) # StoredLength(2)
    /\ StoredOffset(4) > StoredOffset(3)

IsAmaFile(f) ==
    /\ Len(f.name) > Len(AMA_EXT)
    /\ SubSeq(f.name, Len(f.name) - Len(AMA_EXT) + 1, Len(f.name)) = AMA_EXT

\* A byte read through the unicode map.
DecodeByte(b) == IF b < 128 THEN b ELSE unicode_map[b - 128 + 1]

\* The lowest byte whose map entry is the code point.
LowestByteOf(codepoint) ==
    128 + (CHOOSE i \in 1..Len(unicode_map) :
              /\ unicode_map[i] = codepoint
              /\ \A k \in 1..(i - 1) : unicode_map[k] # codepoint) - 1

Representable(codepoint) ==
    codepoint < 128 \/ \E i \in 1..Len(unicode_map) : unicode_map[i] = codepoint

ContentOf(name) == AmaContent(ama_contents[DictGet(ama_contents, name)].lines)

AllRepresentable ==
    \A a \in 1..Len(ama_contents) :
        \A k \in 1..Len(AmaContent(ama_contents[a].lines)) :
            Representable(AmaContent(ama_contents[a].lines)[k])

\* C6: every AMA payload read back through the unicode map is the encoded
\* text; a code point at or above 128 is encoded to the lowest byte that
\* maps to it; a text with a code point at or above 128 that the map lacks
\* is refused (no file is produced), and only such a text is; and
\* UNICODE.MAP, holding the map, is among the files whenever an AMA payload
\* holds a byte at or above 0x80.
C6_EncodeMatchesMap ==
    /\ bpc \in {"pack", "done"} =>
           /\ AllRepresentable
           /\ \A i \in 1..Len(files) : IsAmaFile(files[i]) =>
                  LET data == files[i].data
                      text == ContentOf(files[i].name)
                  IN  /\ Len(data) = Len(text)
                      /\ \A k \in 1..Len(data) :
                             /\ DecodeByte(data[k]) = text[k]
                             /\ text[k] >= 128 => data[k] = LowestByteOf(text[k])
           /\ (\E i \in 1..Len(files) : IsAmaFile(files[i]) /\ HasHighBit(files[i].data))
                  => \E j \in 1..Len(files) :
                         /\ files[j].name = UNICODE_MAP_NAME
                         /\ Len(files[j].data) = 2 * Len(unicode_map)
                         /\ \A k \in 1..Len(unicode_map) :
                                files[j].data[2 * k - 1] + 256 * files[j].data[2 * k]
                                    = unicode_map[k]
    /\ bpc = "error" => (~AllRepresentable /\ files = <<>>)

\* C6 witness: a map that holds e-acute at two positions, an article other
\* than INDEX.AMA whose payload holds its byte, and UNICODE.MAP in the
\* archive.
C6_Witness ==
    /\ bpc = "done"
    /\ unicode_map[2] = 233 /\ unicode_map[3] = 233 /\ unicode_map[1] # 233
    /\ ~HasHighBit(files[1].data)
    /\ \E i \in 1..Len(files) : IsAmaFile(files[i]) /\ 129 \in {files[i].data[k] : k \in 1..Len(files[i].data)}
    /\ files[Len(files)].name = UNICODE_MAP_NAME

\* ------------------------------------------------- claims about the book

\* C2: across a book the names of the post-split files are pairwise
\* distinct: whenever split_article has returned and render_articles is
\* about to store its items, none of their names is already a key of
\* rendered (so no two line lists are ever stored under one name).
C2_PostSplitNamesDistinct ==
    (kpc = "split" /\ spc = "done") =>
        \A i \in 1..Len(result) : ~HasKey(rendered, result[i].name)

\* The names of the AMA files of the packed archive.
PackedAmaNames == {rendered[i].name : i \in 1..Len(rendered)}

\* The directory offset of the named file.
DirectoryOffset(name) ==
    directory[CHOOSE j \in 1..Len(directory) : directory[j].name = name].offset

\* The offsets the final directory records for the AMA files whose lines
\* hold the word.
OffsetsOfFilesWith(word) ==
    {DirectoryOffset(rendered[i].name) :
        i \in {k \in 1..Len(rendered) : word \in extract_words(rendered[k].lines)}}

\* C4: in every returned archive that holds DICT.IDX, the file-offset list
\* of every entry is the ascending, duplicate-free list of the offsets the
\* final directory (DICT.IDX counted) records for the AMA files whose
\* extracted words hold the entry's word.
C4_DictOffsetsAreFinal ==
    (kpc = "done" /\ dict_index # <<>>) =>
        \A b \in Buckets : \A i \in 1..Len(dict_index.index[b]) :
            LET entry == dict_index.index[b][i]
            IN  entry.file_ids = SortedInts(OffsetsOfFilesWith(entry.word))

\* C5: when build_dict_index has failed, build_amb still returns an
\* archive; its directory lists the base files, without DICT.IDX, at the
\* offsets of that entry count.
C5_DictFailureKeepsArchive ==
    (kpc \in {"done", "error"} /\ dict_err # "none") =>
        /\ kpc = "done"
        /\ Len(directory) = Len(base_files)
        /\ \A i \in 1..Len(directory) :
               /\ directory[i].name = base_files[i].name
               /\ directory[i].length = base_files[i].length
               /\ directory[i].offset =
                      6 + 20 * Len(base_files)
                      + SumRange([k \in 1..Len(base_files) |-> base_files[k].length], 1, i - 1)

\* --------------------------------------- claims about the splitter's loop

\* The lines the loop has not yet put into a closed segment: those of the
\* current segment and the unread ones of the work list.
SplitPending == Len(current) + (Len(encoded_lines) - index)

\* The variant of the segmentation loop: the pending lines first, the
\* unread lines second (there are never more unread lines than input lines
\* while every flush closes a non-empty segment).
SplitMeasure == SplitPending * (Len(lines) + 1) + (Len(encoded_lines) - index)

\* C11: split_article terminates on every input whose lines each encode to
\* at most AMA_MAX_BYTES: every iteration of the segmentation loop that does
\* not leave it lowers the non-negative variant, so the loop ends after
\* finitely many steps, also when the pop-back step empties the current
\* segment.
C11_LoopTerminates ==
    [][(spc = "loop" /\ spc' = "loop") => SplitMeasure' < SplitMeasure]_vars

\* ------------------------------------ claims about the number of segments

\* The ordered partition of the lines into contiguous segments that ends a
\* segment after each line whose position is in cuts, and after the last.
PartitionAt(ls, cuts) ==
    LET ends == SortedInts(cuts \cup {Len(ls)})
    IN  [k \in 1..Len(ends) |->
            SubSeq(ls, IF k = 1 THEN 1 ELSE ends[k - 1] + 1, ends[k])]

\* The ordered partitions of a non-empty list of lines.
Partitions(ls) == {PartitionAt(ls, cuts) : cuts \in SUBSET (1..(Len(ls) - 1))}

\* Every non-terminal segment, with the blank line and the continuation
\* trailer split_article would give it, encodes to at most AMA_MAX_BYTES, and
\* so does the terminal segment.
FitsWithTrailers(fname, segs) ==
    LET generated == GenerateNames(fname, Len(segs), 0, <<>>, {})
    IN  \A k \in 1..Len(segs) :
            EncodedSize(SegmentLines(segs, generated, k)) <= AMA_MAX_BYTES

\* Every non-terminal segment leaves the bytes split_article reserves for a
\* continuation (continue_overhead: a blank line and the trailer to a name of
\* 12 characters), and the lines of the terminal segment total at most
\* AMA_MAX_BYTES.
FitsWithReserve(segs) ==
    \A k \in 1..Len(segs) :
        SumSizes(segs[k]) + (IF k < Len(segs) THEN continue_overhead ELSE 0)
            <= AMA_MAX_BYTES

\* split_article has returned for an input that does not fit one file.
SplitReturned == SplitDone /\ EncodedSize(lines) > AMA_MAX_BYTES

\* C12 as stated: when the input does not fit one file, no ordered partition
\* of the lines into fewer contiguous segments exists in which every
\* non-terminal segment plus a blank line and its continuation trailer, and
\* the terminal segment, encode to at most AMA_MAX_BYTES.
C12_MinimumSegments ==
    SplitReturned =>
        \A segs \in Partitions(lines) :
            FitsWithTrailers(filename, segs) => Len(segs) >= Len(result)

\* C12, amended: the returned segments are the fewest among the partitions
\* whose non-terminal segments leave the reserved continuation overhead.
C12_MinimumWithReserve ==
    SplitReturned =>
        \A segs \in Partitions(lines) :
            FitsWithReserve(segs) => Len(segs) >= Len(result)

\* Lines were popped back and three segments returned, where two would do
\* with the trailer the second name needs.
C12_Witness ==
    /\ SplitReturned
    /\ Len(result) = 3
    /\ Len(encoded_lines) > Len(lines)
    /\ \E segs \in Partitions(lines) : Len(segs) = 2 /\ FitsWithTrailers(filename, segs)

\* ------------------------------------------- claims about payload lengths

\* C13: every payload build_amb hands to pack_amb, DICT.IDX included, is at
\* most 65,535 bytes long; the length field of its directory entry holds the
\* payload's exact length, and pack_amb never fails on a length that does
\* not fit 16 bits (the one struct.error of a build is that of
\* build_dict_index).
C13_PayloadsFitLengthField ==
    /\ kpc = "pack" =>
           \A i \in 1..Len(PackedFiles) : FitsU16(PackedFiles[i].length)
    /\ kpc = "done" =>
           /\ Len(directory) = Len(PackedFiles)
           /\ \A i \in 1..Len(directory) : directory[i].length = PackedFiles[i].length
    /\ (kpc = "error" /\ kerr = "struct.error") => dict_err = "struct.error"

=============================================================================
